---------------------------- MODULE Spec2Model ----------------------------
(***************************************************************************)
(* The batch scripts of the repository as state machines:                  *)
(*   src/data/split.py, src/data/normalize.py, src/models/grid_search.py,  *)
(*   src/models/training.py, src/models/evaluate.py.                       *)
(* A state is the file system the scripts share, the contents of           *)
(* params.yaml, the running script, its position (pc), the exception that  *)
(* ended it (err) and its local variables.                                 *)
(***************************************************************************)
EXTENDS Integers, Sequences, FiniteSets, TLC

VARIABLES
    script,          \* the script whose main() is running
    pc,              \* position inside main()
    err,             \* "" or the exception that aborted main()
    fs,              \* path -> file content (NoFile when the path does not exist)
    params,          \* contents of params.yaml
    X_train,         \* training.py: the loaded feature table
    numerical_cols,  \* training.py main
    categorical_cols,\* training.py main
    preprocessor,    \* training.py main
    model_configs,   \* training.py main
    i,               \* position of the family loop
    best_score,      \* running best of the selector
    best_pipeline,   \* training.py train_with_gridsearch
    best_results,    \* training.py train_with_gridsearch
    best_res,        \* grid_search.py main
    searches,        \* history: what each returned GridSearchCV.fit reported
    y_test,          \* evaluate.py main
    pipeline,        \* evaluate.py main
    y_pred,          \* evaluate.py main
    metrics,         \* evaluate.py main
    df,              \* split.py main: the raw table
    splits,          \* split.py main: X_train, X_test, y_train, y_test
    scaled,          \* normalize.py main: X_train_scaled, X_test_scaled
    ran              \* history: <<script, err>> of every finished stage

vars == <<script, pc, err, fs, params, X_train, numerical_cols, categorical_cols,
          preprocessor, model_configs, i, best_score, best_pipeline, best_results,
          best_res, searches, y_test, pipeline, y_pred, metrics, df, splits, scaled,
          ran>>

trainLocals == <<X_train, numerical_cols, categorical_cols, preprocessor>>
selectLocals == <<model_configs, i, best_score, best_pipeline, best_results,
                  best_res, searches>>
evalLocals == <<y_test, pipeline, y_pred, metrics>>
dataLocals == <<df, splits, scaled>>

----------------------------------------------------------------------------
(* Bounds of the model *)

MaxCols == 2      \* columns of a feature table
MaxModels == 2    \* entries of params.yaml's models list
MaxLoss == 2      \* finite scores are -1 .. -MaxLoss (neg_mean_squared_error)
MaxLen == 2       \* rows of the test set
MaxAbsY == 1      \* target values are -MaxAbsY .. MaxAbsY

----------------------------------------------------------------------------
(* Python values *)

None == [py |-> "None"]
EmptyDict == [k \in {} |-> 0]
NoFile == [py |-> "absent"]

(* floats: finite numbers, the infinities and not-a-number *)
Num(v) == [k |-> "num", v |-> v]
NegInf == [k |-> "-inf", v |-> 0]
PosInf == [k |-> "inf", v |-> 0]
NaN == [k |-> "nan", v |-> 0]

(* a > b on floats: every comparison with NaN is False *)
Gt(a, b) ==
    IF a.k = "nan" \/ b.k = "nan" THEN FALSE
    ELSE IF a.k = "-inf" \/ b.k = "inf" THEN FALSE
    ELSE IF a.k = "inf" \/ b.k = "-inf" THEN TRUE
    ELSE a.v > b.v

(* -a on floats *)
Neg(a) ==
    CASE a.k = "num" -> Num(0 - a.v)
      [] a.k = "-inf" -> PosInf
      [] a.k = "inf" -> NegInf
      [] OTHER -> NaN

Scores == {NegInf, NaN} \cup {Num(0 - v) : v \in 1..MaxLoss}

----------------------------------------------------------------------------
(* Paths, relative to PROJECT_ROOT (the scripts that use relative paths run *)
(* with PROJECT_ROOT as working directory)                                  *)

Split_RAW_DATA_PATH == "data/raw_data"
Split_PROCESSED_DATA_PATH == "data/processed_data"
Normalize_in_dir == "data/processed_data"
GridSearch_data_dir == "data/processed_data"
Training_PROCESSED_DATA_PATH == "data/processed"
Training_MODELS_PATH == "models"
Evaluate_PROCESSED_DATA_PATH == "data/processed_data"
Evaluate_MODELS_PATH == "models"
Evaluate_METRICS_PATH == "metrics"
Evaluate_DATA_PATH == "data"

(* every path a script reads or writes, as <<directory, file name>> *)
Paths ==
    ({Split_RAW_DATA_PATH} \X {"raw.csv"})
    \cup ({Split_PROCESSED_DATA_PATH} \X
             {"X_train.csv", "X_test.csv", "y_train.csv", "y_test.csv"})
    \cup ({Normalize_in_dir} \X
             {"X_train.csv", "X_test.csv", "X_train_scaled.csv", "X_test_scaled.csv"})
    \cup ({GridSearch_data_dir} \X {"X_train_scaled.csv", "y_train.csv"})
    \cup ({"models"} \X {"best_params.pkl"})
    \cup ({Training_PROCESSED_DATA_PATH} \X {"X_train.csv", "y_train.csv"})
    \cup ({Training_MODELS_PATH} \X {"best_pipeline.pkl", "best_params.json"})
    \cup ({Evaluate_PROCESSED_DATA_PATH} \X {"X_test.csv", "y_test.csv"})
    \cup ({Evaluate_MODELS_PATH} \X {"best_pipeline.pkl"})
    \cup ({Evaluate_DATA_PATH} \X {"predictions.csv"})
    \cup ({Evaluate_METRICS_PATH} \X {"scores.json"})

Exists(f, p) == f[p] # NoFile

----------------------------------------------------------------------------
(* Feature tables: the dtypes of the columns, in column order; a column is  *)
(* named by its position (pandas.read_csv makes column names unique).       *)
(* read_csv itself infers int64, float64, object and bool; category is here *)
(* because identify_column_types asks for it.                               *)

Dtypes == {"int64", "float64", "object", "category", "bool"}
Tables == UNION {[1..n -> Dtypes] : n \in 0..MaxCols}

(* a CSV file: the dtypes pandas.read_csv gives its columns and, for a file a
   script reads the rows of, the values of its last column *)
Csv(table, values) == [py |-> "csv", table |-> table, values |-> values]

RECURSIVE SelectFrom(_, _, _)
SelectFrom(X, include, k) ==
    IF k > Len(X) THEN <<>>
    ELSE (IF X[k] \in include THEN <<k>> ELSE <<>>) \o SelectFrom(X, include, k + 1)

(* DataFrame.select_dtypes(include=...).columns.tolist() *)
select_dtypes(X, include) == SelectFrom(X, include, 1)

(* the include lists of identify_column_types; NumericalDtypesWithObject is
   the slip of asking for "object" in both *)
NumericalDtypesWithObject == {"int64", "float64", "object"}
NumericalDtypes == {"int64", "float64"}
CategoricalDtypes == {"object", "category"}

identify_column_types(X) ==
    <<select_dtypes(X, NumericalDtypes), select_dtypes(X, CategoricalDtypes)>>

create_preprocessor(num, cat) ==
    [transformers |->
        (IF num # <<>> THEN <<[name |-> "num", step |-> "StandardScaler", cols |-> num]>>
         ELSE <<>>)
        \o
        (IF cat # <<>> THEN <<[name |-> "cat", step |-> "OneHotEncoder", cols |-> cat]>>
         ELSE <<>>),
     remainder |-> "passthrough"]

----------------------------------------------------------------------------
(* params.yaml *)

Registered == {"RandomForest", "GradientBoosting"}
FamilyNames == Registered \cup {"XGBoost"}

(* a hyperparameter name is a sequence of "__"-separated parts *)
REGRESSOR == "regressor__"
Grid == (<<"n_estimators">> :> {1, 2}) @@ (<<"max_depth">> :> {3})

ModelEntries == [name : FamilyNames, params : {Grid}]
ModelLists == UNION {[1..n -> ModelEntries] : n \in 0..MaxModels}
Strategies == {"standard", "minmax", "robust", "quantile"}

ParamsYaml == [models : ModelLists, strategy : Strategies, stratify : BOOLEAN]


----------------------------------------------------------------------------
(* sklearn objects, as far as the scripts look at them *)

Pipeline(pre, estimator) ==
    [py |-> "Pipeline", preprocessor |-> pre, regressor |-> estimator,
     params |-> EmptyDict, fitted_on |-> "unfitted"]

(* grid_search.py get_model: the bare estimator, or ValueError *)
get_model(name) ==
    IF name \in Registered
    THEN [py |-> "Estimator", preprocessor |-> None, regressor |-> name,
          params |-> EmptyDict, fitted_on |-> "unfitted"]
    ELSE [py |-> "raise", error |-> "ValueError: Unknown model"]

(* every assignment of one listed value to each key of a grid *)
Assignments(grid) ==
    {f \in [DOMAIN grid -> UNION {grid[k] : k \in DOMAIN grid}] :
        \A k \in DOMAIN grid : f[k] \in grid[k]}

(* GridSearchCV(estimator, param_grid, ...).fit(X_train, y_train): either it
   raises, or it reports a best score (any float), the best assignment of the
   grid, and (refit is left at its default) a clone of the estimator with that
   assignment fitted on all of X_train *)
GridSearchFit(estimator, param_grid) ==
    {[raised |-> TRUE, best_score_ |-> None, best_params_ |-> None,
      best_estimator_ |-> None]}
    \cup
    {[raised |-> FALSE, best_score_ |-> s, best_params_ |-> a,
      best_estimator_ |-> [estimator EXCEPT !.params = a, !.fitted_on = "X_train"]] :
        s \in Scores, a \in Assignments(param_grid)}

----------------------------------------------------------------------------
(* training.py *)

(* get_model_configs: the entries of params["models"] whose name is in
   model_mapping, in order *)
RECURSIVE ConfigsFrom(_, _)
ConfigsFrom(models, k) ==
    IF k > Len(models) THEN <<>>
    ELSE (IF models[k].name \in Registered
          THEN <<[name |-> models[k].name, estimator |-> models[k].name,
                  params |-> models[k].params]>>
          ELSE <<>>) \o ConfigsFrom(models, k + 1)

get_model_configs(p) == ConfigsFrom(p.models, 1)

(* f"regressor__{key}" *)
PrefixKey(key) == <<REGRESSOR>> \o key

(* key.replace("regressor__", "") *)
StripKey(key) == SelectSeq(key, LAMBDA t : t # REGRESSOR)

(* param_grid of train_with_gridsearch *)
PrefixedGrid(grid) ==
    [pk \in {PrefixKey(k) : k \in DOMAIN grid} |->
        grid[CHOOSE k \in DOMAIN grid : PrefixKey(k) = pk]]

(* best_results["best_params"] *)
BareParams(bp) ==
    [bk \in {StripKey(k) : k \in DOMAIN bp} |->
        bp[CHOOSE k \in DOMAIN bp : StripKey(k) = bk]]

(* best_results["best_score"] *)
ReportedScore(score) == Neg(score)

(* the comparison that replaces the running best *)
Better(score, best) == Gt(score, best)

(* the pipeline kept when the running best is replaced; KeptTemplate is the
   slip of keeping the pipeline that was handed to GridSearchCV, which the
   search never fits *)
KeptTemplate(template, gs) == template
Kept(template, gs) == gs.best_estimator_

TrainingInputs == {<<Training_PROCESSED_DATA_PATH, "X_train.csv">>,
                   <<Training_PROCESSED_DATA_PATH, "y_train.csv">>}
PipelineFile == <<Training_MODELS_PATH, "best_pipeline.pkl">>
ResultsFile == <<Training_MODELS_PATH, "best_params.json">>

Running(s, at) == script = s /\ pc = at /\ err = ""

(* an exception ends main() where it is raised *)
Abort(e) == err' = e /\ pc' = pc

TrainLoadParams ==
    /\ Running("training", "start")
    /\ pc' = "load_train_data"
    /\ UNCHANGED <<script, err, fs, params, trainLocals, selectLocals, evalLocals, dataLocals, ran>>

TrainLoadData ==
    /\ Running("training", "load_train_data")
    /\ IF \A p \in TrainingInputs : Exists(fs, p)
       THEN /\ X_train' = fs[<<Training_PROCESSED_DATA_PATH, "X_train.csv">>].table
            /\ pc' = "identify_column_types"
            /\ err' = err
       ELSE /\ Abort("FileNotFoundError")
            /\ X_train' = X_train
    /\ UNCHANGED <<script, fs, params, numerical_cols, categorical_cols, preprocessor,
                   selectLocals, evalLocals, dataLocals, ran>>

TrainIdentify ==
    /\ Running("training", "identify_column_types")
    /\ numerical_cols' = identify_column_types(X_train)[1]
    /\ categorical_cols' = identify_column_types(X_train)[2]
    /\ pc' = "create_preprocessor"
    /\ UNCHANGED <<script, err, fs, params, X_train, preprocessor, selectLocals,
                   evalLocals, dataLocals, ran>>

TrainCreatePreprocessor ==
    /\ Running("training", "create_preprocessor")
    /\ preprocessor' = create_preprocessor(numerical_cols, categorical_cols)
    /\ pc' = "get_model_configs"
    /\ UNCHANGED <<script, err, fs, params, X_train, numerical_cols, categorical_cols,
                   selectLocals, evalLocals, dataLocals, ran>>

TrainGetModelConfigs ==
    /\ Running("training", "get_model_configs")
    /\ model_configs' = get_model_configs(params)
    /\ pc' = "train_with_gridsearch"
    /\ UNCHANGED <<script, err, fs, params, trainLocals, i, best_score, best_pipeline,
                   best_results, best_res, searches, evalLocals, dataLocals, ran>>

(* train_with_gridsearch, lines 134-136 *)
TrainSelectInit ==
    /\ Running("training", "train_with_gridsearch")
    /\ best_score' = NegInf
    /\ best_pipeline' = None
    /\ best_results' = EmptyDict
    /\ i' = 1
    /\ pc' = "for_config"
    /\ UNCHANGED <<script, err, fs, params, trainLocals, model_configs, best_res,
                   searches, evalLocals, dataLocals, ran>>

(* one iteration of the loop of train_with_gridsearch *)
TrainFamily ==
    /\ Running("training", "for_config")
    /\ i <= Len(model_configs)
    /\ LET config == model_configs[i]
           template == Pipeline(preprocessor, config.estimator)
       IN \E gs \in GridSearchFit(template, PrefixedGrid(config.params)) :
            IF gs.raised
            THEN /\ Abort("FitError")
                 /\ UNCHANGED <<i, best_score, best_pipeline, best_results, searches>>
            ELSE /\ searches' = Append(searches,
                         [name |-> config.name, best_score_ |-> gs.best_score_,
                          best_params_ |-> gs.best_params_])
                 /\ IF Better(gs.best_score_, best_score)
                    THEN /\ best_score' = gs.best_score_
                         /\ best_pipeline' = Kept(template, gs)
                         /\ best_results' =
                              [model_name |-> config.name,
                               best_score |-> ReportedScore(gs.best_score_),
                               best_params |-> BareParams(gs.best_params_)]
                    ELSE UNCHANGED <<best_score, best_pipeline, best_results>>
                 /\ i' = i + 1
                 /\ UNCHANGED <<pc, err>>
    /\ UNCHANGED <<script, fs, params, trainLocals, model_configs, best_res,
                   evalLocals, dataLocals, ran>>

(* train_with_gridsearch returns (best_pipeline, best_results) *)
TrainSelectReturn ==
    /\ Running("training", "for_config")
    /\ i > Len(model_configs)
    /\ pc' = "save_pipeline"
    /\ UNCHANGED <<script, err, fs, params, trainLocals, selectLocals, evalLocals, dataLocals, ran>>

(* save_pipeline: joblib.dump(pipeline, best_pipeline.pkl) *)
SavePipelineDump ==
    /\ Running("training", "save_pipeline")
    /\ fs' = [fs EXCEPT ![PipelineFile] = best_pipeline]
    /\ pc' = "save_results"
    /\ UNCHANGED <<script, err, params, trainLocals, selectLocals, evalLocals, dataLocals, ran>>

(* save_pipeline: json.dump(results, best_params.json) *)
SaveResultsDump ==
    /\ Running("training", "save_results")
    /\ fs' = [fs EXCEPT ![ResultsFile] = best_results]
    /\ pc' = "log_best_model"
    /\ UNCHANGED <<script, err, params, trainLocals, selectLocals, evalLocals, dataLocals, ran>>

(* main, line 232: results['model_name'] *)
TrainLogBest ==
    /\ Running("training", "log_best_model")
    /\ IF "model_name" \in DOMAIN best_results
       THEN pc' = "done" /\ err' = err
       ELSE Abort("KeyError")
    /\ UNCHANGED <<script, fs, params, trainLocals, selectLocals, evalLocals, dataLocals, ran>>

TrainingNext ==
    \/ TrainLoadParams \/ TrainLoadData \/ TrainIdentify \/ TrainCreatePreprocessor
    \/ TrainGetModelConfigs \/ TrainSelectInit \/ TrainFamily \/ TrainSelectReturn
    \/ SavePipelineDump \/ SaveResultsDump \/ TrainLogBest

----------------------------------------------------------------------------
(* grid_search.py *)

GridSearchInputs == {<<GridSearch_data_dir, "X_train_scaled.csv">>,
                     <<GridSearch_data_dir, "y_train.csv">>}
BestParamsFile == <<"models", "best_params.pkl">>

(* main, lines 16-21 *)
GsLoad ==
    /\ Running("grid_search", "start")
    /\ IF \A p \in GridSearchInputs : Exists(fs, p)
       THEN /\ best_score' = NegInf
            /\ best_res' = None
            /\ i' = 1
            /\ pc' = "for_m"
            /\ err' = err
       ELSE /\ Abort("FileNotFoundError")
            /\ UNCHANGED <<best_score, best_res, i>>
    /\ UNCHANGED <<script, fs, params, trainLocals, model_configs, best_pipeline,
                   best_results, searches, evalLocals, dataLocals, ran>>

(* one iteration of the loop of main *)
GsFamily ==
    /\ Running("grid_search", "for_m")
    /\ i <= Len(params.models)
    /\ LET m == params.models[i]
           estimator == get_model(m.name)
       IN IF estimator.py = "raise"
          THEN /\ Abort(estimator.error)
               /\ UNCHANGED <<i, best_score, best_res, searches>>
          ELSE \E grid \in GridSearchFit(estimator, m.params) :
                 IF grid.raised
                 THEN /\ Abort("FitError")
                      /\ UNCHANGED <<i, best_score, best_res, searches>>
                 ELSE /\ searches' = Append(searches,
                              [name |-> m.name, best_score_ |-> grid.best_score_,
                               best_params_ |-> grid.best_params_])
                      /\ IF Better(grid.best_score_, best_score)
                         THEN /\ best_score' = grid.best_score_
                              /\ best_res' = [model_name |-> m.name,
                                              best_params |-> grid.best_params_]
                         ELSE UNCHANGED <<best_score, best_res>>
                      /\ i' = i + 1
                      /\ UNCHANGED <<pc, err>>
    /\ UNCHANGED <<script, fs, params, trainLocals, model_configs, best_pipeline,
                   best_results, evalLocals, dataLocals, ran>>

(* main, lines 32-33: joblib.dump(best_res, "models/best_params.pkl") *)
GsDump ==
    /\ Running("grid_search", "for_m")
    /\ i > Len(params.models)
    /\ fs' = [fs EXCEPT ![BestParamsFile] = best_res]
    /\ pc' = "log_best_model"
    /\ UNCHANGED <<script, err, params, trainLocals, selectLocals, evalLocals, dataLocals, ran>>

(* main, line 34: best_res['model_name'] *)
GsLogBest ==
    /\ Running("grid_search", "log_best_model")
    /\ IF best_res # None
       THEN pc' = "done" /\ err' = err
       ELSE Abort("TypeError")
    /\ UNCHANGED <<script, fs, params, trainLocals, selectLocals, evalLocals, dataLocals, ran>>

GridSearchNext == GsLoad \/ GsFamily \/ GsDump \/ GsLogBest

----------------------------------------------------------------------------
(* A run of one of the two training scripts *)

InitLocals ==
    /\ pc = "start"
    /\ err = ""
    /\ X_train = None
    /\ numerical_cols = None
    /\ categorical_cols = None
    /\ preprocessor = None
    /\ model_configs = None
    /\ i = 0
    /\ best_score = None
    /\ best_pipeline = None
    /\ best_results = None
    /\ best_res = None
    /\ searches = <<>>
    /\ y_test = None
    /\ pipeline = None
    /\ y_pred = None
    /\ metrics = None
    /\ df = None
    /\ splits = None
    /\ scaled = None

(* the file system before a training script runs: the training data is in
   place where the script looks for it, or it is not there at all; the
   scaled table grid_search.py reads has float columns only *)
TrainingFs(table) ==
    [p \in Paths |->
        IF p = <<Training_PROCESSED_DATA_PATH, "X_train.csv">> THEN Csv(table, <<>>)
        ELSE IF p = <<Training_PROCESSED_DATA_PATH, "y_train.csv">>
             THEN Csv(<<"float64">>, <<>>)
        ELSE NoFile]

GridSearchFs(table) ==
    [p \in Paths |->
        IF p = <<GridSearch_data_dir, "X_train_scaled.csv">> THEN Csv(table, <<>>)
        ELSE IF p = <<GridSearch_data_dir, "y_train.csv">> THEN Csv(<<"float64">>, <<>>)
        ELSE NoFile]

ScaledTables == {t \in Tables : \A c \in 1..Len(t) : t[c] = "float64"}

EmptyFs == [p \in Paths |-> NoFile]

Init ==
    /\ script \in {"training", "grid_search"}
    /\ params \in {y \in ParamsYaml : y.strategy = "standard" /\ ~y.stratify}
    /\ fs \in IF script = "training"
              THEN {TrainingFs(t) : t \in Tables} \cup {EmptyFs}
              ELSE {GridSearchFs(t) : t \in ScaledTables} \cup {EmptyFs}
    /\ InitLocals
    /\ ran = <<>>

Next == TrainingNext \/ GridSearchNext

Spec == Init /\ [][Next]_vars

----------------------------------------------------------------------------
(* Vocabulary of the claims about the selector *)

(* the candidate list handed to the selector *)
Families == IF script = "training" THEN model_configs ELSE params.models

(* the loop over the families has run to its end: every search returned *)
LoopDone ==
    /\ script \in {"training", "grid_search"}
    /\ i >= 1
    /\ i > Len(Families)

(* training.py main has got past identify_column_types / get_model_configs *)
Identified ==
    /\ script = "training"
    /\ pc \in {"create_preprocessor", "get_model_configs", "train_with_gridsearch",
               "for_config", "save_pipeline", "save_results", "log_best_model", "done"}

Configured ==
    /\ script = "training"
    /\ pc \in {"train_with_gridsearch", "for_config", "save_pipeline", "save_results",
               "log_best_model", "done"}

(* the selector has handed its result on *)
Returned == LoopDone /\ pc \notin {"for_config", "for_m"}

HasWinner ==
    IF script = "training"
    THEN best_pipeline # None /\ "model_name" \in DOMAIN best_results
    ELSE best_res # None

WinnerName ==
    IF script = "training"
    THEN (IF "model_name" \in DOMAIN best_results THEN best_results.model_name
          ELSE "no winner")
    ELSE (IF best_res # None THEN best_res.model_name ELSE "no winner")

(* the searches that attain the maximum of the scores reported so far *)
MaxSet ==
    {k \in 1..Len(searches) :
        /\ searches[k].best_score_ # NaN
        /\ \A j \in 1..Len(searches) :
              \/ searches[j].best_score_ = NaN
              \/ ~Gt(searches[j].best_score_, searches[k].best_score_)}

Earliest(S) == CHOOSE k \in S : \A j \in S : k <= j

Ended == pc = "done" \/ err # ""

(* C1: after the loop over a non-empty family list, the family returned is
   the earliest-declared family among those attaining the maximum score (so
   of two families with the same best score the first-declared is selected) *)
C1_EarliestMaximumWins ==
    (LoopDone /\ Len(Families) > 0 /\ MaxSet # {})
        => WinnerName = searches[Earliest(MaxSet)].name

(* C2: a configured family name that is not registered is never passed over
   silently: in training.py, once get_model_configs has returned for a
   configuration that names one, the run has failed with the unknown-model
   error; in grid_search.py the loop never moves past one *)
C2_UnknownFamilySurfaced ==
    /\ (Configured
          /\ \E k \in 1..Len(params.models) : params.models[k].name \notin Registered)
        => err = "ValueError: Unknown model"
    /\ (script = "grid_search" /\ i >= 1)
        => \A k \in 1..Len(params.models) :
              k < i => params.models[k].name \in Registered

(* C3: a run of training.py main that has ended has written both
   best_pipeline.pkl and best_params.json or neither, a run that ended in an
   error has written neither, and best_pipeline.pkl never holds anything but a
   pipeline fitted on the training set *)
C3_AllOrNothingArtifact ==
    script = "training" =>
        /\ Ended => (Exists(fs, PipelineFile) <=> Exists(fs, ResultsFile))
        /\ err # "" => (~Exists(fs, PipelineFile) /\ ~Exists(fs, ResultsFile))
        /\ Exists(fs, PipelineFile) =>
              /\ fs[PipelineFile].py = "Pipeline"
              /\ fs[PipelineFile].fitted_on = "X_train"

(* C4: the selector never hands on a result for an empty candidate list: it
   fails with NoCandidateFamilies *)
C4_EmptyFamiliesFail ==
    /\ ~(Returned /\ Len(Families) = 0)
    /\ (LoopDone /\ Len(Families) = 0 /\ err # "") => err = "NoCandidateFamilies"

(* C5: on every completed run of training.py main, the pipeline returned by
   the selector and persisted as best_pipeline.pkl is the winning family's
   pipeline, carrying the winning hyperparameters, fitted on the entire
   training set *)
C5_WinnerRefitOnFullTrainingSet ==
    (script = "training" /\ pc = "done") =>
        /\ MaxSet # {}
        /\ LET w == searches[Earliest(MaxSet)]
           IN /\ best_pipeline =
                    [Pipeline(preprocessor, w.name) EXCEPT
                        !.params = w.best_params_, !.fitted_on = "X_train"]
              /\ fs[PipelineFile] = best_pipeline

C5_Witness ==
    /\ script = "training" /\ pc = "done"
    /\ Len(searches) = 2
    /\ Gt(searches[2].best_score_, searches[1].best_score_)
    /\ searches[1].name # searches[2].name
    /\ searches[1].best_params_ # searches[2].best_params_
    /\ fs[PipelineFile].regressor = searches[2].name

(* C6: the metadata record persisted with the artifact holds the winning
   family name, the winning hyperparameters keyed by bare parameter name, and
   the winning cross-validated score, which is the signed, higher-is-better
   value the selector compared across the families *)
C6_MetadataHoldsComparedScore ==
    (script = "training" /\ Exists(fs, ResultsFile)
        /\ "model_name" \in DOMAIN fs[ResultsFile]) =>
        /\ MaxSet # {}
        /\ LET w == searches[Earliest(MaxSet)]
           IN fs[ResultsFile] =
                [model_name |-> w.name,
                 best_score |-> w.best_score_,
                 best_params |->
                    [key \in {Tail(pk) : pk \in DOMAIN w.best_params_} |->
                        w.best_params_[<<REGRESSOR>> \o key]]]
        /\ fs[ResultsFile].best_score = best_score

(* C8: identify_column_types puts every column of the table in exactly one of
   numeric, categorical and neither: the two lists are disjoint, hold only
   columns of the table, keep the table's column order, list exactly the
   int64/float64 and the object/category columns, and leave a column of any
   other type out of both *)
C8_ColumnPartition ==
    Identified =>
        LET num == {numerical_cols[k] : k \in 1..Len(numerical_cols)}
            cat == {categorical_cols[k] : k \in 1..Len(categorical_cols)}
            Ordered(cols) == \A a, b \in 1..Len(cols) : a < b => cols[a] < cols[b]
        IN /\ num \cap cat = {}
           /\ num \cup cat \subseteq 1..Len(X_train)
           /\ Ordered(numerical_cols) /\ Ordered(categorical_cols)
           /\ \A c \in 1..Len(X_train) :
                /\ c \in num <=> X_train[c] \in {"int64", "float64"}
                /\ c \in cat <=> X_train[c] \in {"object", "category"}
                /\ X_train[c] = "bool" => c \notin num \cup cat

C8_Witness ==
    /\ script = "training" /\ pc = "create_preprocessor"
    /\ X_train = <<"bool", "object">>
    /\ numerical_cols = <<>>
    /\ categorical_cols = <<2>>

(* C9: whenever at least one family is handed to the selector and every
   search returns, the selector ends with a winner whose name is one of the
   configured names, whatever the scores (negative infinity and not-a-number
   included) *)
C9_AlwaysAWinner ==
    (Returned /\ Len(Families) >= 1) =>
        /\ HasWinner
        /\ WinnerName \in {Families[k].name : k \in 1..Len(Families)}

----------------------------------------------------------------------------
(* evaluate.py *)

(* numpy float64 results: an exact fraction n/d, inf or nan *)
Ratio(n, d) == [k |-> "num", n |-> n, d |-> d]
RatioInf == [k |-> "inf", n |-> 0, d |-> 1]
RatioNaN == [k |-> "nan", n |-> 0, d |-> 1]

Abs(x) == IF x < 0 THEN 0 - x ELSE x

(* a + b for a, b >= 0 *)
RatioAdd(a, b) ==
    IF a.k = "nan" \/ b.k = "nan" THEN RatioNaN
    ELSE IF a.k = "inf" \/ b.k = "inf" THEN RatioInf
    ELSE Ratio(a.n * b.d + b.n * a.d, a.d * b.d)

(* a * c / d for integers c >= 0, d > 0 *)
RatioScale(a, c, d) == IF a.k = "num" THEN Ratio(a.n * c, a.d * d) ELSE a

RatioEq(a, b) == a.k = b.k /\ (a.k = "num" => a.n * b.d = b.n * a.d)

RECURSIVE RatioSum(_)
RatioSum(terms) ==
    IF terms = <<>> THEN Ratio(0, 1) ELSE RatioAdd(Head(terms), RatioSum(Tail(terms)))

(* np.mean of a non-empty array *)
RatioMean(terms) == RatioScale(RatioSum(terms), 1, Len(terms))

(* np.abs((y_true - y_pred) / y_true), one row: numpy divides by zero
   without raising, x/0 is +-inf and 0/0 is nan *)
AbsPctError(t, p) ==
    IF t = 0 THEN (IF t - p = 0 THEN RatioNaN ELSE RatioInf)
    ELSE Ratio(Abs(t - p), Abs(t))

(* calculate_metrics; rmse and r2 are left as what sklearn/numpy make of
   the mse and of the sums of squares *)
calculate_metrics(y_true, y_predicted) ==
    LET n == Len(y_true)
        mse == RatioMean([r \in 1..n |->
                    Ratio((y_true[r] - y_predicted[r]) * (y_true[r] - y_predicted[r]), 1)])
        mae == RatioMean([r \in 1..n |-> Ratio(Abs(y_true[r] - y_predicted[r]), 1)])
        mape == RatioScale(
                    RatioMean([r \in 1..n |-> AbsPctError(y_true[r], y_predicted[r])]),
                    100, 1)
    IN [mse |-> mse, rmse |-> [sqrt |-> mse], mae |-> mae,
        r2 |-> [r2_score |-> <<y_true, y_predicted>>], mape |-> mape]

YValues == (0 - MaxAbsY)..MaxAbsY
YSeqs == UNION {[1..n -> YValues] : n \in 1..MaxLen}

(* DataFrame.squeeze() of a one-column table: a Series, or a scalar when the
   table has a single row *)
Squeeze(values) ==
    IF Len(values) = 1 THEN [py |-> "scalar", values |-> values]
    ELSE [py |-> "Series", values |-> values]

TestInputs == {<<Evaluate_PROCESSED_DATA_PATH, "X_test.csv">>,
               <<Evaluate_PROCESSED_DATA_PATH, "y_test.csv">>}
EvalPipelineFile == <<Evaluate_MODELS_PATH, "best_pipeline.pkl">>

EvalLoadTest ==
    /\ Running("evaluate", "start")
    /\ IF \A p \in TestInputs : Exists(fs, p)
       THEN /\ y_test' = Squeeze(fs[<<Evaluate_PROCESSED_DATA_PATH, "y_test.csv">>].values)
            /\ pc' = "load_pipeline"
            /\ err' = err
       ELSE /\ Abort("FileNotFoundError")
            /\ y_test' = y_test
    /\ UNCHANGED <<script, fs, params, trainLocals, selectLocals, pipeline, y_pred,
                   metrics, dataLocals, ran>>

EvalLoadPipeline ==
    /\ Running("evaluate", "load_pipeline")
    /\ IF Exists(fs, EvalPipelineFile)
       THEN /\ pipeline' = fs[EvalPipelineFile]
            /\ pc' = "predict"
            /\ err' = err
       ELSE /\ Abort("FileNotFoundError")
            /\ pipeline' = pipeline
    /\ UNCHANGED <<script, fs, params, trainLocals, selectLocals, y_test, y_pred,
                   metrics, dataLocals, ran>>

(* y_pred = pipeline.predict(X_test): one prediction per row *)
EvalPredict ==
    /\ Running("evaluate", "predict")
    /\ IF pipeline = None
       THEN /\ Abort("AttributeError")
            /\ y_pred' = y_pred
       ELSE /\ y_pred' \in [1..Len(y_test.values) -> YValues]
            /\ pc' = "calculate_metrics"
            /\ err' = err
    /\ UNCHANGED <<script, fs, params, trainLocals, selectLocals, y_test, pipeline,
                   metrics, dataLocals, ran>>

(* metrics = calculate_metrics(y_test.values, y_pred) *)
EvalMetrics ==
    /\ Running("evaluate", "calculate_metrics")
    /\ IF y_test.py = "scalar"
       THEN /\ Abort("AttributeError")
            /\ metrics' = metrics
       ELSE /\ metrics' = calculate_metrics(y_test.values, y_pred)
            /\ pc' = "save_predictions"
            /\ err' = err
    /\ UNCHANGED <<script, fs, params, trainLocals, selectLocals, y_test, pipeline,
                   y_pred, dataLocals, ran>>

EvalSavePredictions ==
    /\ Running("evaluate", "save_predictions")
    /\ fs' = [fs EXCEPT ![<<Evaluate_DATA_PATH, "predictions.csv">>] =
                 Csv(fs[<<Evaluate_PROCESSED_DATA_PATH, "X_test.csv">>].table
                        \o <<"int64", "float64", "float64">>, y_pred)]
    /\ pc' = "save_metrics"
    /\ UNCHANGED <<script, err, params, trainLocals, selectLocals, evalLocals,
                   dataLocals, ran>>

EvalSaveMetrics ==
    /\ Running("evaluate", "save_metrics")
    /\ fs' = [fs EXCEPT ![<<Evaluate_METRICS_PATH, "scores.json">>] = metrics]
    /\ pc' = "done"
    /\ UNCHANGED <<script, err, params, trainLocals, selectLocals, evalLocals,
                   dataLocals, ran>>

EvaluateNext ==
    \/ EvalLoadTest \/ EvalLoadPipeline \/ EvalPredict \/ EvalMetrics
    \/ EvalSavePredictions \/ EvalSaveMetrics

(* the file system before evaluate.py runs: the test set is in place or not,
   and best_pipeline.pkl holds whatever training.py dumped, or is missing *)
EvaluateFs(table, values, pkl) ==
    [p \in Paths |->
        IF p = <<Evaluate_PROCESSED_DATA_PATH, "X_test.csv">> THEN Csv(table, <<>>)
        ELSE IF p = <<Evaluate_PROCESSED_DATA_PATH, "y_test.csv">>
             THEN Csv(<<"int64">>, values)
        ELSE IF p = EvalPipelineFile THEN pkl
        ELSE NoFile]

Dumped ==
    {None, NoFile}
    \cup {[Pipeline(create_preprocessor(<<1>>, <<>>), name) EXCEPT
              !.params = a, !.fitted_on = "X_train"] :
            name \in Registered, a \in Assignments(PrefixedGrid(Grid))}

InitEval ==
    /\ script = "evaluate"
    /\ params \in {y \in ParamsYaml : y.models = <<>> /\ y.strategy = "standard"
                                      /\ ~y.stratify}
    /\ fs \in {EvaluateFs(<<"float64">>, v, pkl) : v \in YSeqs, pkl \in Dumped}
              \cup {EmptyFs}
    /\ InitLocals
    /\ ran = <<>>

SpecEval == InitEval /\ [][EvaluateNext]_vars

(* the mean, over the rows where y_true is not zero, of
   |y_true - y_pred| / |y_true|, times 100 *)
NonZeroRows(y_true) == SelectFrom(y_true, YValues \ {0}, 1)

MapeOverNonZeroRows(y_true, y_predicted) ==
    LET rows == NonZeroRows(y_true)
    IN RatioScale(
           RatioMean([r \in 1..Len(rows) |->
               Ratio(Abs(y_true[rows[r]] - y_predicted[rows[r]]), Abs(y_true[rows[r]]))]),
           100, 1)

MetricsComputed ==
    /\ script = "evaluate"
    /\ pc \in {"save_predictions", "save_metrics", "done"}

(* C7: the mape calculate_metrics reports is a finite number, and it is the
   mean over only the rows where y_true is non-zero of
   |y_true - y_pred| / |y_true|, times 100 *)
C7_MapeSkipsZeroRows ==
    MetricsComputed =>
        /\ metrics.mape.k = "num"
        /\ NonZeroRows(y_test.values) # <<>>
              => RatioEq(metrics.mape, MapeOverNonZeroRows(y_test.values, y_pred))

----------------------------------------------------------------------------
(* split.py *)

RawFile == <<Split_RAW_DATA_PATH, "raw.csv">>

(* the values of the rows in `rows`, in row order *)
RECURSIVE RowsOf(_, _, _)
RowsOf(values, rows, r) ==
    IF r > Len(values) THEN <<>>
    ELSE (IF r \in rows THEN <<values[r]>> ELSE <<>>) \o RowsOf(values, rows, r + 1)

(* split_features_target: the last column is the target *)
split_features_target(d) ==
    [X |-> SubSeq(d.table, 1, Len(d.table) - 1),
     y |-> [dtype |-> d.table[Len(d.table)], values |-> d.values]]

(* split_train_test: train_test_split raises ValueError when a side would be
   empty, or when stratifying on a target with a value that occurs once;
   otherwise the test rows are some non-empty proper subset of the rows
   (kept here in row order: nothing downstream looks at the order) *)
split_train_test(X, y, stratify) ==
    LET rows == 1..Len(y.values)
        Count(v) == Cardinality({r \in rows : y.values[r] = v})
    IN IF \/ Len(y.values) < 2
          \/ stratify /\ \E r \in rows : Count(y.values[r]) < 2
       THEN {[py |-> "raise", error |-> "ValueError"]}
       ELSE {[py |-> "splits", X_train |-> X, X_test |-> X,
              y_train |-> [y EXCEPT !.values = RowsOf(y.values, rows \ test, 1)],
              y_test |-> [y EXCEPT !.values = RowsOf(y.values, test, 1)]] :
                test \in (SUBSET rows) \ {{}, rows}}

(* save_splits *)
save_splits(f, sp, output_dir) ==
    [p \in Paths |->
        IF p = <<output_dir, "X_train.csv">> THEN Csv(sp.X_train, <<>>)
        ELSE IF p = <<output_dir, "X_test.csv">> THEN Csv(sp.X_test, <<>>)
        ELSE IF p = <<output_dir, "y_train.csv">>
             THEN Csv(<<sp.y_train.dtype>>, sp.y_train.values)
        ELSE IF p = <<output_dir, "y_test.csv">>
             THEN Csv(<<sp.y_test.dtype>>, sp.y_test.values)
        ELSE f[p]]

(* main, lines 128-140: params, the glob of RAW_DATA_PATH, load_raw_data *)
SplitLoad ==
    /\ Running("split", "start")
    /\ IF Exists(fs, RawFile)
       THEN /\ df' = fs[RawFile]
            /\ pc' = "split"
            /\ err' = err
       ELSE /\ Abort("FileNotFoundError")
            /\ df' = df
    /\ UNCHANGED <<script, fs, params, trainLocals, selectLocals, evalLocals, splits,
                   scaled, ran>>

(* main, lines 141-148: split_features_target and split_train_test *)
SplitSplit ==
    /\ Running("split", "split")
    /\ LET t == split_features_target(df)
       IN \E sp \in split_train_test(t.X, t.y, params.stratify) :
            IF sp.py = "raise"
            THEN /\ Abort(sp.error)
                 /\ splits' = splits
            ELSE /\ splits' = sp
                 /\ pc' = "save_splits"
                 /\ err' = err
    /\ UNCHANGED <<script, fs, params, trainLocals, selectLocals, evalLocals, df,
                   scaled, ran>>

SplitSave ==
    /\ Running("split", "save_splits")
    /\ fs' = save_splits(fs, splits, Split_PROCESSED_DATA_PATH)
    /\ pc' = "done"
    /\ UNCHANGED <<script, err, params, trainLocals, selectLocals, evalLocals,
                   dataLocals, ran>>

SplitNext == SplitLoad \/ SplitSplit \/ SplitSave

----------------------------------------------------------------------------
(* normalize.py *)

get_scaler(strategy) ==
    CASE strategy = "standard" -> [py |-> "StandardScaler"]
      [] strategy = "minmax" -> [py |-> "MinMaxScaler"]
      [] strategy = "robust" -> [py |-> "RobustScaler"]
      [] OTHER -> [py |-> "raise", error |-> "ValueError: Unknown strategy"]

NormalizeInputs == {<<Normalize_in_dir, "X_train.csv">>, <<Normalize_in_dir, "X_test.csv">>}

(* main, lines 16-20 *)
NormalizeLoad ==
    /\ Running("normalize", "start")
    /\ IF \A p \in NormalizeInputs : Exists(fs, p)
       THEN pc' = "scale" /\ err' = err
       ELSE Abort("FileNotFoundError")
    /\ UNCHANGED <<script, fs, params, trainLocals, selectLocals, evalLocals,
                   dataLocals, ran>>

(* main, lines 22-27: get_scaler, fit_transform, transform; the scaler raises
   ValueError on a table it cannot convert to floats, and on one it can it
   returns float columns under the same names *)
NormalizeScale ==
    /\ Running("normalize", "scale")
    /\ LET scaler == get_scaler(params.strategy)
           X == fs[<<Normalize_in_dir, "X_train.csv">>].table
           floats == [c \in 1..Len(X) |-> "float64"]
       IN IF scaler.py = "raise"
          THEN /\ Abort(scaler.error)
               /\ scaled' = scaled
          ELSE \E converts \in BOOLEAN :
                 IF ~converts \/ X = <<>>
                 THEN /\ Abort("ValueError")
                      /\ scaled' = scaled
                 ELSE /\ scaled' = [X_train_scaled |-> floats, X_test_scaled |-> floats]
                      /\ pc' = "to_csv"
                      /\ err' = err
    /\ UNCHANGED <<script, fs, params, trainLocals, selectLocals, evalLocals, df,
                   splits, ran>>

(* main, lines 29-30 *)
NormalizeSave ==
    /\ Running("normalize", "to_csv")
    /\ fs' = [fs EXCEPT
                ![<<Normalize_in_dir, "X_train_scaled.csv">>] =
                    Csv(scaled.X_train_scaled, <<>>),
                ![<<Normalize_in_dir, "X_test_scaled.csv">>] =
                    Csv(scaled.X_test_scaled, <<>>)]
    /\ pc' = "done"
    /\ UNCHANGED <<script, err, params, trainLocals, selectLocals, evalLocals,
                   dataLocals, ran>>

NormalizeNext == NormalizeLoad \/ NormalizeScale \/ NormalizeSave

----------------------------------------------------------------------------
(* The stages run one after the other, in pipeline order, on a project that
   holds only the raw data and params.yaml.  Each stage is a fresh process.
   Whoever runs the stages may stop after a stage that failed or go on to
   the next one; both are behaviours of this specification. *)

StageOrder == <<"split", "normalize", "training", "evaluate">>

NextStage(sc) == StageOrder[1 + CHOOSE k \in 1..(Len(StageOrder) - 1) : StageOrder[k] = sc]

RunNextStage ==
    /\ Ended
    /\ script # StageOrder[Len(StageOrder)]
    /\ ran' = Append(ran, <<script, err>>)
    /\ script' = NextStage(script)
    /\ pc' = "start"
    /\ err' = ""
    /\ X_train' = None /\ numerical_cols' = None /\ categorical_cols' = None
    /\ preprocessor' = None /\ model_configs' = None /\ i' = 0
    /\ best_score' = None /\ best_pipeline' = None /\ best_results' = None
    /\ best_res' = None /\ searches' = <<>>
    /\ y_test' = None /\ pipeline' = None /\ y_pred' = None /\ metrics' = None
    /\ df' = None /\ splits' = None /\ scaled' = None
    /\ UNCHANGED <<fs, params>>

RawTables == {t \in Tables : Len(t) >= 1}

RawFs(raw) == [p \in Paths |-> IF p = RawFile THEN raw ELSE NoFile]

ConfiguredModels ==
    <<[name |-> "RandomForest", params |-> Grid],
      [name |-> "GradientBoosting", params |-> Grid]>>

InitPipeline ==
    /\ script = StageOrder[1]
    /\ params \in [models : {ConfiguredModels}, strategy : Strategies,
                   stratify : BOOLEAN]
    /\ fs \in {RawFs(Csv(t, v)) : t \in RawTables, v \in YSeqs}
    /\ InitLocals
    /\ ran = <<>>

(* in this order training.py and evaluate.py get no further than their loads *)
NextPipeline ==
    \/ SplitNext
    \/ NormalizeNext
    \/ TrainLoadParams \/ TrainLoadData
    \/ EvalLoadTest \/ EvalLoadPipeline
    \/ RunNextStage

SpecPipeline == InitPipeline /\ [][NextPipeline]_vars

(* C10: with the stages run in pipeline order from the raw data alone, and
   every earlier stage having finished without error, no stage fails on a
   missing file: each file a stage reads was written, at that path, by an
   earlier stage *)
C10_NoMissingFile ==
    (\A k \in 1..Len(ran) : ran[k][2] = "") => err # "FileNotFoundError"

=============================================================================
